---- MODULE Spec2Model ----
(***************************************************************************)
(* TasksService (workspace-server/src/services/TasksService.ts): a facade  *)
(* over the Google Tasks client.  One service instance, its memoized       *)
(* default tasklist id, and the asynchronous invocations in flight on it.  *)
(* Every await of the source is a suspension point: an invocation is a     *)
(* small process whose steps are the continuations that run when the       *)
(* awaited promise settles.                                                *)
(***************************************************************************)
EXTENDS Naturals, Sequences, FiniteSets

(***************************************************************************)
(* JavaScript values.  Every value is a record of the same three fields, so *)
(* that values of different kinds can be compared.  An object is the       *)
(* ordered sequence of its members (insertion order, as in JavaScript).    *)
(***************************************************************************)
JUndef == [k |-> "undefined", s |-> "", a |-> <<>>]
JNull == [k |-> "null", s |-> "", a |-> <<>>]
JStr(x) == [k |-> "string", s |-> x, a |-> <<>>]
JBool(b) == [k |-> "boolean", s |-> IF b THEN "true" ELSE "false", a |-> <<>>]
JArr(elems) == [k |-> "array", s |-> "", a |-> elems]
Mem(key, v) == [k |-> "member", s |-> key, a |-> <<v>>]
JObj(members) == [k |-> "object", s |-> "", a |-> members]
\* an instance of Error carrying a message
JErr(msg) == [k |-> "error", s |-> msg, a |-> <<>>]

\* JavaScript truthiness: undefined, null, false and "" are falsy
Truthy(v) ==
  /\ v.k \notin {"undefined", "null"}
  /\ ~(v.k = "string" /\ v.s = "")
  /\ ~(v.k = "boolean" /\ v.s = "false")

\* the keys of an object, in order
Keys(obj) == [i \in 1..Len(obj.a) |-> obj.a[i].s]
KeySet(obj) == {obj.a[i].s : i \in 1..Len(obj.a)}

\* obj.key (undefined when the key is absent or obj is no object)
Get(obj, key) ==
  IF obj.k \in {"object", "error"} /\ key \in KeySet(obj)
  THEN obj.a[CHOOSE i \in 1..Len(obj.a) : obj.a[i].s = key].a[1]
  ELSE JUndef

\* x?.[0]
OptFirst(x) ==
  IF x.k = "array" /\ Len(x.a) >= 1 THEN x.a[1] ELSE JUndef

\* String(v) and template-literal interpolation of v
StringOf(v) ==
  CASE v.k = "string" -> v.s
    [] v.k = "undefined" -> "undefined"
    [] v.k = "null" -> "null"
    [] v.k = "boolean" -> v.s
    [] v.k = "error" -> "Error: " \o v.s
    [] OTHER -> "[object Object]"

(***************************************************************************)
(* JSON.stringify: members whose value is undefined are dropped from an    *)
(* object, undefined elements of an array become null, and the result for  *)
(* undefined itself is undefined (no text at all).                         *)
(***************************************************************************)
RECURSIVE Ser(_), SerElems(_), SerMembers(_)
Ser(v) ==
  CASE v.k = "string" -> "\"" \o v.s \o "\""
    [] v.k = "boolean" -> v.s
    [] v.k = "array" -> "[" \o SerElems(v.a) \o "]"
    [] v.k = "object" ->
         "{" \o SerMembers(SelectSeq(v.a, LAMBDA m : m.a[1].k # "undefined")) \o "}"
    [] v.k = "error" -> "{}"
    [] OTHER -> "null"
SerElems(es) ==
  IF es = <<>> THEN ""
  ELSE Ser(Head(es)) \o (IF Len(es) > 1 THEN "," ELSE "") \o SerElems(Tail(es))
SerMembers(ms) ==
  IF ms = <<>> THEN ""
  ELSE "\"" \o Head(ms).s \o "\":" \o Ser(Head(ms).a[1])
       \o (IF Len(ms) > 1 THEN "," ELSE "") \o SerMembers(Tail(ms))

JSONStringify(v) == IF v.k = "undefined" THEN JUndef ELSE JStr(Ser(v))

(***************************************************************************)
(* The remote service and the callers.                                     *)
(***************************************************************************)
ListA == JObj(<<Mem("id", JStr("list1")), Mem("title", JStr("My Tasks"))>>)
ListB == JObj(<<Mem("id", JStr("list2")), Mem("title", JStr("Work"))>>)
ListNoId == JObj(<<Mem("title", JStr("Untitled"))>>)

\* what the remote may hold as res.data.items of tasklists.list
MaxLists == 2

RECURSIVE Orderings(_)
Orderings(n) ==
  IF n = 0 THEN {<<>>}
  ELSE { Append(s, x) : s \in Orderings(n - 1), x \in {ListA, ListB, ListNoId} }

NoRepeat(s) == \A i, j \in 1..Len(s) : s[i] = s[j] => i = j

\* items absent, or up to MaxLists different lists in any order
TasklistStates ==
  {JUndef} \cup
  { JArr(s) : s \in { o \in UNION {Orderings(n) : n \in 0..MaxLists} : NoRepeat(o) } }

\* the three of them that differ for callers racing on the memo
RacingTasklistStates == { JArr(<<>>), JArr(<<ListA, ListB>>), JArr(<<ListB, ListA>>) }

Task1 == JObj(<<Mem("id", JStr("task1")), Mem("title", JStr("Task 1"))>>)
Task2 ==
  JObj(<<Mem("id", JStr("task2")), Mem("title", JStr("Task 2")),
         Mem("status", JStr("completed"))>>)

\* res.data of a successful call to each endpoint
ResponseData(endpoint, lists) ==
  CASE endpoint = "tasklists.list" -> {JObj(<<Mem("items", lists)>>)}
    [] endpoint = "tasks.list" ->
         {JObj(<<Mem("items", x)>>) : x \in {JUndef, JArr(<<>>), JArr(<<Task1, Task2>>)}}
    [] endpoint = "tasks.delete" -> {JStr("")}
    [] OTHER -> {Task1, Task2}

\* what getAuthenticatedClient may reject with
AuthFailures == {JErr("Not authenticated")}
\* what a remote call may reject with: an Error, or a value that is no Error
ApiFailures == {JErr("API Error"), JStr("quota exceeded")}

Procs == {"p1", "p2"}

Ops == {"listTaskLists", "listTasks", "createTask", "updateTask", "deleteTask", "getTask"}
DefaultingOps == Ops \ {"listTaskLists"}

\* an object with the members of ms whose value is given (absent otherwise)
Given(ms) == JObj(SelectSeq(ms, LAMBDA m : m.a[1] # JUndef))

VARIABLES
  defaultTasklistId,  \* this.defaultTasklistId
  tasklists,          \* the remote's ordered task lists
  call,               \* call[p]: the invocation caller p has made: where it is
                      \* suspended (pc), its locals, and, as history, whether
                      \* getDefaultTasklistId issued tasklists.list (fetched),
                      \* the memo it read (memoSeen), the settled remote call
                      \* (res) and how many times its remote call went out (sent)
  prior               \* history: the invocation the one caller of a sequential
                      \* run had completed when it made the present one, and
                      \* the memo as it was at that moment

vars == <<defaultTasklistId, tasklists, call, prior>>

NoRequest == [endpoint |-> "none", params |-> JUndef]
Pending == [kind |-> "pending", value |-> JUndef]

Idle ==
  [ pc |-> "idle", op |-> "none", input |-> JUndef, finalTasklistId |-> JUndef,
    request |-> NoRequest, res |-> Pending, outcome |-> Pending,
    fetched |-> FALSE, memoSeen |-> JUndef, sent |-> 0 ]

NoPrior ==
  [defaulted |-> FALSE, fetched |-> FALSE, finalTasklistId |-> JUndef, memo |-> JNull]

InitWith(lists) ==
  /\ defaultTasklistId = JNull
  /\ tasklists \in lists
  /\ call = [p \in Procs |-> Idle]
  /\ prior = NoPrior

Init == InitWith(TasklistStates)

(***************************************************************************)
(* The code of TasksService, expression by expression.                     *)
(***************************************************************************)
\* a slip: the caller's tasklistId is used only while nothing is memoized
Supplied_NeverTaken(tasklistId) == FALSE

\* tasklistId || (await this.getDefaultTasklistId()): the left operand wins
Supplied(tasklistId) == Truthy(tasklistId)

\* a slip: the memo is written and never read
MemoHit_Never(memo) == FALSE

\* if (this.defaultTasklistId) return this.defaultTasklistId;
MemoHit(memo) == Truthy(memo)

\* a slip: the last list is taken for the default one
DefaultList_Last(data) ==
  LET items == Get(data, "items")
  IN  IF items.k = "array" /\ Len(items.a) >= 1 THEN items.a[Len(items.a)] ELSE JUndef

\* const defaultList = res.data.items?.[0];
DefaultList(data) == OptFirst(Get(data, "items"))

\* if (defaultList && defaultList.id)
HasDefault(defaultList) == Truthy(defaultList) /\ Truthy(Get(defaultList, "id"))

\* '@default'
Sentinel == JStr("@default")

\* a slip: the memo is cleared when no list with an id is found
MemoAfter_Cleared(memo, defaultList) ==
  IF HasDefault(defaultList) THEN Get(defaultList, "id") ELSE JNull

\* a slip: the sentinel is memoized too
MemoAfter_SentinelToo(memo, defaultList) ==
  IF HasDefault(defaultList) THEN Get(defaultList, "id") ELSE Sentinel

\* this.defaultTasklistId once getDefaultTasklistId has looked at defaultList
MemoAfter(memo, defaultList) ==
  IF HasDefault(defaultList) THEN Get(defaultList, "id") ELSE memo

\* a slip: return defaultList.title;
ResolvedId_Title(defaultList) ==
  IF HasDefault(defaultList) THEN Get(defaultList, "title") ELSE Sentinel

\* what getDefaultTasklistId returns once it has looked at defaultList
ResolvedId(defaultList) ==
  IF HasDefault(defaultList) THEN Get(defaultList, "id") ELSE Sentinel

\* a destructuring default: name = dflt
Default(v, dflt) == IF v.k = "undefined" THEN dflt ELSE v

\* a slip: if (title) requestBody.title = title;
UpdateField_IfTruthy(body, key, v) ==
  IF Truthy(v) THEN JObj(Append(body.a, Mem(key, v))) ELSE body

\* if (v !== undefined) requestBody[key] = v;
UpdateField(body, key, v) ==
  IF v # JUndef THEN JObj(Append(body.a, Mem(key, v))) ELSE body

\* const requestBody = {}; then the four assignments, in order
UpdateBody(input) ==
  LET b0 == JObj(<<>>)
      b1 == UpdateField(b0, "title", Get(input, "title"))
      b2 == UpdateField(b1, "notes", Get(input, "notes"))
      b3 == UpdateField(b2, "due", Get(input, "due"))
  IN  UpdateField(b3, "status", Get(input, "status"))

\* a slip: createTask builds its body the way updateTask does
CreateBody_Sparse(input) == UpdateBody(input)

\* const requestBody = { title, notes, due, status };
CreateBody(input) ==
  JObj(<< Mem("title", Get(input, "title")), Mem("notes", Get(input, "notes")),
          Mem("due", Get(input, "due")), Mem("status", Get(input, "status")) >>)

\* the argument of the operation's remote call
BuildRequest(op, input, final) ==
  CASE op = "listTaskLists" ->
         [endpoint |-> "tasklists.list", params |-> JUndef]
    [] op = "listTasks" ->
         [endpoint |-> "tasks.list",
          params |-> JObj(<< Mem("tasklist", final),
            Mem("showCompleted", Default(Get(input, "showCompleted"), JBool(FALSE))),
            Mem("showDeleted", Default(Get(input, "showDeleted"), JBool(FALSE))),
            Mem("showHidden", Default(Get(input, "showHidden"), JBool(FALSE))),
            Mem("dueMin", Get(input, "dueMin")),
            Mem("dueMax", Get(input, "dueMax")) >>)]
    [] op = "createTask" ->
         [endpoint |-> "tasks.insert",
          params |-> JObj(<< Mem("tasklist", final),
                             Mem("requestBody", CreateBody(input)) >>)]
    [] op = "updateTask" ->
         [endpoint |-> "tasks.patch",
          params |-> JObj(<< Mem("tasklist", final),
                             Mem("task", Get(input, "taskId")),
                             Mem("requestBody", UpdateBody(input)) >>)]
    [] op = "deleteTask" ->
         [endpoint |-> "tasks.delete",
          params |-> JObj(<< Mem("tasklist", final),
                             Mem("task", Get(input, "taskId")) >>)]
    [] op = "getTask" ->
         [endpoint |-> "tasks.get",
          params |-> JObj(<< Mem("tasklist", final),
                             Mem("task", Get(input, "taskId")) >>)]

\* { content: [{ type: 'text', text }] }
TextEnvelope(text) ==
  JObj(<< Mem("content",
          JArr(<< JObj(<< Mem("type", JStr("text")), Mem("text", text) >>) >>)) >>)

\* error instanceof Error ? error.message : String(error)
ErrorMessage(error) == IF error.k = "error" THEN error.s ELSE StringOf(error)

\* the catch block's return value
ErrorResult(error) ==
  TextEnvelope(JSONStringify(JObj(<< Mem("error", JStr(ErrorMessage(error))) >>)))

\* a slip: the || [] is left out
ItemsOrEmpty_Raw(items) == items

\* res.data.items || []
ItemsOrEmpty(items) == IF Truthy(items) THEN items ELSE JArr(<<>>)

\* `Successfully deleted task ${taskId}`
DeleteMessage(taskId) == "Successfully deleted task " \o StringOf(taskId)

\* the try block's return value
SuccessResult(op, input, data) ==
  CASE op \in {"listTaskLists", "listTasks"} ->
         TextEnvelope(JSONStringify(ItemsOrEmpty(Get(data, "items"))))
    [] op = "deleteTask" ->
         TextEnvelope(JSONStringify(
           JObj(<< Mem("message", JStr(DeleteMessage(Get(input, "taskId")))) >>)))
    [] OTHER -> TextEnvelope(JSONStringify(data))

(***************************************************************************)
(* The inputs the callers draw from.                                       *)
(***************************************************************************)
TasklistIdArgs == {JUndef, JStr(""), JStr("work-list")}
TaskId == JStr("task1")

\* inputs of listTasks, deleteTask and getTask
ListTasksInputs(tasklistIds) ==
  { Given(<< Mem("tasklistId", t) >>) : t \in tasklistIds }
  \cup { Given(<< Mem("showCompleted", JBool(TRUE)),
                  Mem("dueMin", JStr("2026-01-01T00:00:00Z")) >>) }

TaskInputs(tasklistIds) ==
  { Given(<< Mem("taskId", TaskId), Mem("tasklistId", t) >>) : t \in tasklistIds }

\* inputs of createTask and updateTask
FieldInputs(taskId, tasklistIds, titles, notes, dues, statuses) ==
  { Given(<< Mem("taskId", taskId), Mem("tasklistId", t), Mem("title", ti),
             Mem("notes", n), Mem("due", d), Mem("status", st) >>) :
      t \in tasklistIds, ti \in titles, n \in notes, d \in dues, st \in statuses }

\* one caller after the other: every operation, every kind of tasklistId
Invocations(tasklistIds) ==
  {<<"listTaskLists", JUndef>>}
  \cup {<<"listTasks", in>> : in \in ListTasksInputs(tasklistIds)}
  \cup {<<op, in>> : op \in {"deleteTask", "getTask"}, in \in TaskInputs(tasklistIds)}
  \cup {<<"createTask", in>> :
          in \in FieldInputs(JUndef, tasklistIds, {JStr("New Task")},
                             {JUndef}, {JUndef}, {JUndef})}
  \cup {<<"updateTask", in>> :
          in \in FieldInputs(TaskId, tasklistIds, {JStr("Updated Title")},
                             {JUndef}, {JUndef}, {JUndef})}

\* createTask and updateTask over every combination of given and absent fields
FieldInvocations ==
  {<<"createTask", in>> :
      in \in FieldInputs(JUndef, {JUndef, JStr("work-list")},
                         {JStr(""), JStr("New Task")},
                         {JUndef, JStr("Some notes")},
                         {JUndef, JStr("2026-03-01T00:00:00Z")},
                         {JUndef, JStr("completed")})}
  \cup {<<"updateTask", in>> :
      in \in FieldInputs(TaskId, {JUndef, JStr("work-list")},
                         {JUndef, JStr(""), JStr("Updated Title")},
                         {JUndef, JNull, JStr("Some notes")},
                         {JUndef, JStr("2026-03-01T00:00:00Z")},
                         {JUndef, JStr("completed")})}

(***************************************************************************)
(* The steps of an invocation.                                             *)
(***************************************************************************)
Settle(p, rec) == call' = [call EXCEPT ![p] = rec]

Returned(c, envelope) ==
  [c EXCEPT !.pc = "done", !.outcome = [kind |-> "returned", value |-> envelope]]

Rejected(c, error) ==
  [c EXCEPT !.pc = "done", !.outcome = [kind |-> "rejected", value |-> error]]

\* a slip: the catch block goes for a client and the remote call once more
Caught_Retry(c, error) == [c EXCEPT !.pc = "try_auth"]

\* catch (error) { ... return the error envelope }
Caught(c, error) == Returned(c, ErrorResult(error))

\* The call of an operation, up to its first await: the effective tasklist
\* is the caller's, or the memo, or getDefaultTasklistId goes for a client.
Invoke(p, op, input) ==
  /\ call[p].pc \in {"idle", "done"}
  /\ LET tasklistId == Get(input, "tasklistId")
         c0 == [Idle EXCEPT !.op = op, !.input = input]
     IN  Settle(p,
           IF op = "listTaskLists"
             THEN [c0 EXCEPT !.pc = "try_auth"]
           ELSE IF Supplied(tasklistId)
             THEN [c0 EXCEPT !.pc = "try_auth", !.finalTasklistId = tasklistId]
           ELSE IF MemoHit(defaultTasklistId)
             THEN [c0 EXCEPT !.pc = "try_auth", !.memoSeen = defaultTasklistId,
                             !.finalTasklistId = defaultTasklistId]
           ELSE [c0 EXCEPT !.pc = "res_auth", !.memoSeen = defaultTasklistId])
  /\ UNCHANGED <<defaultTasklistId, tasklists>>

\* getDefaultTasklistId: the client is there, tasklists.list() goes out
ResolveClientReady(p) ==
  /\ call[p].pc = "res_auth"
  /\ Settle(p, [call[p] EXCEPT !.pc = "res_list", !.fetched = TRUE])
  /\ UNCHANGED <<defaultTasklistId, tasklists, prior>>

\* getDefaultTasklistId: getAuthenticatedClient rejects, outside any try
ResolveClientFailed(p, error) ==
  /\ call[p].pc = "res_auth"
  /\ Settle(p, Rejected(call[p], error))
  /\ UNCHANGED <<defaultTasklistId, tasklists, prior>>

\* getDefaultTasklistId: tasklists.list() resolves
ResolveListed(p, data) ==
  /\ call[p].pc = "res_list"
  /\ LET defaultList == DefaultList(data)
     IN  /\ defaultTasklistId' = MemoAfter(defaultTasklistId, defaultList)
         /\ Settle(p, [call[p] EXCEPT !.pc = "try_auth",
                                     !.finalTasklistId = ResolvedId(defaultList)])
  /\ UNCHANGED <<tasklists, prior>>

\* getDefaultTasklistId: tasklists.list() rejects, outside any try
ResolveListFailed(p, error) ==
  /\ call[p].pc = "res_list"
  /\ Settle(p, Rejected(call[p], error))
  /\ UNCHANGED <<defaultTasklistId, tasklists, prior>>

\* inside try: the client is there, the operation's remote call goes out
ClientReady(p) ==
  /\ call[p].pc = "try_auth"
  /\ Settle(p, [call[p] EXCEPT !.pc = "call", !.sent = @ + 1,
        !.request = BuildRequest(call[p].op, call[p].input, call[p].finalTasklistId)])
  /\ UNCHANGED <<defaultTasklistId, tasklists, prior>>

\* inside try: getAuthenticatedClient rejects
ClientFailed(p, error) ==
  /\ call[p].pc = "try_auth"
  /\ Settle(p, Caught(call[p], error))
  /\ UNCHANGED <<defaultTasklistId, tasklists, prior>>

\* inside try: the remote call resolves
RemoteDone(p, data) ==
  /\ call[p].pc = "call"
  /\ Settle(p, Returned([call[p] EXCEPT !.res = [kind |-> "ok", value |-> data]],
                        SuccessResult(call[p].op, call[p].input, data)))
  /\ UNCHANGED <<defaultTasklistId, tasklists, prior>>

\* inside try: the remote call rejects
RemoteFailed(p, error) ==
  /\ call[p].pc = "call"
  /\ Settle(p, Caught([call[p] EXCEPT !.res = [kind |-> "rejected", value |-> error]],
                      error))
  /\ UNCHANGED <<defaultTasklistId, tasklists, prior>>

\* another client of the remote service adds, removes or reorders task lists
RemoteChange(lists) ==
  /\ lists # tasklists
  /\ tasklists' = lists
  /\ UNCHANGED <<defaultTasklistId, call, prior>>

\* a continuation of p's invocation runs
Step(p) ==
  \/ ResolveClientReady(p)
  \/ \E e \in AuthFailures : ResolveClientFailed(p, e)
  \/ \E d \in ResponseData("tasklists.list", tasklists) : ResolveListed(p, d)
  \/ \E e \in ApiFailures : ResolveListFailed(p, e)
  \/ ClientReady(p)
  \/ \E e \in AuthFailures : ClientFailed(p, e)
  \/ \E d \in ResponseData(call[p].request.endpoint, tasklists) : RemoteDone(p, d)
  \/ \E e \in ApiFailures : RemoteFailed(p, e)

\* what the next invocation of the same caller remembers of the one it replaces
Summary(c) ==
  IF c.pc = "done" /\ c.op \in DefaultingOps /\ Get(c.input, "tasklistId") = JUndef
  THEN [defaulted |-> TRUE, fetched |-> c.fetched, finalTasklistId |-> c.finalTasklistId,
        memo |-> JNull]
  ELSE NoPrior

\* the caller awaits each invocation before it makes the next
InvokeNext(p, op, input) ==
  /\ Invoke(p, op, input)
  /\ prior' = [Summary(call[p]) EXCEPT !.memo = defaultTasklistId]

\* the caller does not wait
InvokeAlso(p, op, input) ==
  /\ Invoke(p, op, input)
  /\ UNCHANGED prior

(***************************************************************************)
(* Spec: one caller, one invocation after the other, over every operation  *)
(* and every kind of tasklistId, while the remote's lists change.          *)
(***************************************************************************)
Caller == "p1"

Next ==
  \/ \E i \in Invocations(TasklistIdArgs) : InvokeNext(Caller, i[1], i[2])
  \/ Step(Caller)
  \/ \E lists \in TasklistStates : RemoteChange(lists)

Spec == Init /\ [][Next]_vars

(***************************************************************************)
(* SpecFields: createTask and updateTask over every combination of fields. *)
(***************************************************************************)
NextFields ==
  \/ \E i \in FieldInvocations : InvokeNext(Caller, i[1], i[2])
  \/ Step(Caller)

SpecFields == InitWith(RacingTasklistStates) /\ [][NextFields]_vars

(***************************************************************************)
(* SpecRace: two callers whose invocations are in flight together.         *)
(* SpecStable: the same while the remote's lists, whatever they are, do    *)
(* not change.                                                             *)
(***************************************************************************)
NextStable ==
  \/ \E p \in Procs : \E i \in Invocations({JUndef}) :
       InvokeAlso(p, i[1], i[2])
  \/ \E p \in Procs : Step(p)

NextRace ==
  \/ NextStable
  \/ \E lists \in RacingTasklistStates : RemoteChange(lists)

SpecRace == InitWith(RacingTasklistStates) /\ [][NextRace]_vars

SpecStable == Init /\ [][NextStable]_vars

(***************************************************************************)
(* What a caller reads off a result: JSON.parse(result.content[0].text).   *)
(***************************************************************************)
Messages ==
  {ErrorMessage(e) : e \in AuthFailures \cup ApiFailures}
  \cup {"Successfully deleted task " \o TaskId.s}

\* the values a text of this service can stand for
JsonValues ==
  {JObj(<<Mem(key, JStr(m))>>) : key \in {"error", "message"}, m \in Messages}
  \cup (TasklistStates \ {JUndef})
  \cup {JArr(<<>>), JArr(<<Task1, Task2>>), Task1, Task2}

\* JSON.parse(text): the value with that text (undefined stands for a SyntaxError)
JSONParse(text) ==
  IF \E v \in JsonValues : JSONStringify(v) = text
  THEN CHOOSE v \in JsonValues : JSONStringify(v) = text
  ELSE JUndef

\* result.content[0].text of a returned envelope
TextOf(envelope) == Get(OptFirst(Get(envelope, "content")), "text")

\* the envelope is { content: [ { type: "text", text: <a string> } ] }
IsTextEnvelope(envelope) ==
  /\ Keys(envelope) = <<"content">>
  /\ Get(envelope, "content").k = "array"
  /\ Len(Get(envelope, "content").a) = 1
  /\ Keys(OptFirst(Get(envelope, "content"))) = <<"type", "text">>
  /\ Get(OptFirst(Get(envelope, "content")), "type") = JStr("text")
  /\ TextOf(envelope).k = "string"

\* the invocation is of one of the five operations that take a tasklistId
Defaulting(c) == c.op \in DefaultingOps
TasklistIdOf(c) == Get(c.input, "tasklistId")
\* the tasklist of the remote call the invocation has issued
TasklistSent(c) == Get(c.request.params, "tasklist")
Issued(c) == c.request # NoRequest

(***************************************************************************)
(* C1.  Every invocation of the six operations completes by returning an   *)
(* envelope, whose text parses to {error: <message>} when client           *)
(* acquisition, default resolution or the remote call failed; it never     *)
(* rejects to its caller.  The code awaits getDefaultTasklistId before it  *)
(* enters its try block, so this fails.                                    *)
(***************************************************************************)
C1_AlwaysReturnsEnvelope ==
  \A p \in Procs :
    call[p].pc = "done" =>
      /\ call[p].outcome.kind = "returned"
      /\ IsTextEnvelope(call[p].outcome.value)
      /\ call[p].res.kind # "ok" =>
           Keys(JSONParse(TextOf(call[p].outcome.value))) = <<"error">>

(***************************************************************************)
(* C2.  As claimed: an invocation of the five operations whose input has a *)
(* tasklistId that is a string never runs default resolution and sends     *)
(* that tasklistId.  The empty string is falsy, so this fails for "".      *)
(***************************************************************************)
C2_AnyStringIdUsed ==
  \A p \in Procs :
    Defaulting(call[p]) /\ TasklistIdOf(call[p]).k = "string" =>
      /\ ~call[p].fetched
      /\ call[p].pc \notin {"res_auth", "res_list"}
      /\ Issued(call[p]) => TasklistSent(call[p]) = TasklistIdOf(call[p])

(***************************************************************************)
(* C2, amended.  An invocation whose input has a non-empty tasklistId      *)
(* never runs default resolution (it neither reads the memo nor issues     *)
(* list-tasklists) and sends exactly that tasklistId, whatever the memo.   *)
(***************************************************************************)
C2_NonEmptyIdUsed ==
  \A p \in Procs :
    /\ Defaulting(call[p])
    /\ TasklistIdOf(call[p]).k = "string"
    /\ TasklistIdOf(call[p]).s # ""
    => /\ ~call[p].fetched
       /\ call[p].memoSeen = JUndef
       /\ call[p].pc \notin {"res_auth", "res_list"}
       /\ Issued(call[p]) => TasklistSent(call[p]) = TasklistIdOf(call[p])

\* a call with a tasklistId is out while another id is memoized
C2_Witness ==
  /\ call[Caller].pc = "call"
  /\ TasklistIdOf(call[Caller]) = JStr("work-list")
  /\ TasklistSent(call[Caller]) = JStr("work-list")
  /\ defaultTasklistId = JStr("list1")

(***************************************************************************)
(* C3.  As claimed: of two invocations without a tasklistId made one after *)
(* the other, at most one issues list-tasklists, whatever the remote       *)
(* answers.  Nothing is memoized when the first finds no list with an id   *)
(* or fails, so this fails.                                                *)
(***************************************************************************)
C3_AtMostOneFetch ==
  /\ prior.defaulted
  /\ Defaulting(call[Caller])
  /\ TasklistIdOf(call[Caller]) = JUndef
  => ~(prior.fetched /\ call[Caller].fetched)

(***************************************************************************)
(* C3, amended.  When the first of the two invocations got an id as its    *)
(* effective tasklist (from the memo, or from a list-tasklists answer      *)
(* whose first item has an id), the second issues no list-tasklists, so at *)
(* most one round trip is made across the two.                             *)
(***************************************************************************)
C3_AtMostOneFetchOnceResolved ==
  /\ prior.defaulted
  /\ Truthy(prior.finalTasklistId)
  /\ prior.finalTasklistId # Sentinel
  /\ Defaulting(call[Caller])
  /\ TasklistIdOf(call[Caller]) = JUndef
  => /\ ~call[Caller].fetched
     /\ call[Caller].pc \notin {"res_auth", "res_list"}

\* the first fetched and memoized list1, the second has completed on the memo
C3_Witness ==
  /\ prior.defaulted
  /\ prior.fetched
  /\ prior.finalTasklistId = JStr("list1")
  /\ Defaulting(call[Caller])
  /\ TasklistIdOf(call[Caller]) = JUndef
  /\ call[Caller].pc = "done"
  /\ call[Caller].res.kind = "ok"
  /\ ~call[Caller].fetched
  /\ call[Caller].finalTasklistId = JStr("list1")

(***************************************************************************)
(* C4.  When getDefaultTasklistId receives a list-tasklists answer whose   *)
(* first item has id X, the effective tasklist and the memo both become X  *)
(* (the first item's id, not a later item's), and the remote call the      *)
(* operation then issues carries tasklist = X.                             *)
(***************************************************************************)
FirstId(lists) == Get(OptFirst(lists), "id")

C4_FirstListIsDefault ==
  [][ \A p \in Procs :
        /\ ( /\ call[p].pc = "res_list"
             /\ call'[p].pc = "try_auth"
             /\ FirstId(tasklists).k = "string"
             => /\ call'[p].finalTasklistId = FirstId(tasklists)
                /\ defaultTasklistId' = FirstId(tasklists) )
        /\ ( /\ call[p].pc = "try_auth"
             /\ call'[p].pc = "call"
             /\ Defaulting(call[p])
             => TasklistSent(call'[p]) = call[p].finalTasklistId )
    ]_vars

\* the call is out with the first of two lists, which is also memoized
C4_Witness ==
  /\ call[Caller].pc = "call"
  /\ call[Caller].fetched
  /\ tasklists.k = "array"
  /\ Len(tasklists.a) >= 2
  /\ FirstId(tasklists).k = "string"
  /\ Get(tasklists.a[2], "id").k = "string"
  /\ TasklistSent(call[Caller]) = FirstId(tasklists)
  /\ defaultTasklistId = FirstId(tasklists)

(***************************************************************************)
(* C5.  The body updateTask sends holds exactly the keys among title,      *)
(* notes, due, status whose value in the input is not undefined, each once *)
(* and with the input's value; never taskId or tasklistId.                 *)
(***************************************************************************)
BodyFields == {"title", "notes", "due", "status"}
BodySent(c) == Get(c.request.params, "requestBody")

C5_SparseUpdateBody ==
  \A p \in Procs :
    call[p].op = "updateTask" /\ Issued(call[p]) =>
      LET body == BodySent(call[p])
      IN  /\ body.k = "object"
          /\ KeySet(body) = {f \in BodyFields : Get(call[p].input, f) # JUndef}
          /\ Len(body.a) = Cardinality(KeySet(body))
          /\ \A f \in KeySet(body) : Get(body, f) = Get(call[p].input, f)

\* an empty title and a null notes are sent, due and status are not
C5_Witness ==
  /\ call[Caller].op = "updateTask"
  /\ call[Caller].pc = "call"
  /\ Get(call[Caller].input, "title") = JStr("")
  /\ Get(call[Caller].input, "notes") = JNull
  /\ Keys(BodySent(call[Caller])) = <<"title", "notes">>

(***************************************************************************)
(* C6.  The body createTask sends always has the four keys title, notes,   *)
(* due, status, each with the input's value, undefined when not given.     *)
(***************************************************************************)
C6_FullCreateBody ==
  \A p \in Procs :
    call[p].op = "createTask" /\ Issued(call[p]) =>
      LET body == BodySent(call[p])
      IN  /\ body.k = "object"
          /\ Keys(body) = <<"title", "notes", "due", "status">>
          /\ \A i \in 1..Len(body.a) :
               body.a[i].a[1] = Get(call[p].input, body.a[i].s)

\* only title and due are given, notes and status go out as undefined
C6_Witness ==
  /\ call[Caller].op = "createTask"
  /\ call[Caller].pc = "call"
  /\ KeySet(call[Caller].input) = {"title", "due"}
  /\ Len(BodySent(call[Caller]).a) = 4
  /\ Get(BodySent(call[Caller]), "notes") = JUndef

(***************************************************************************)
(* C7.  When the operation's remote call succeeds, the result is a one-    *)
(* item text envelope whose text parses to: the items of the response for  *)
(* listTaskLists and listTasks, the empty array when items is empty or     *)
(* absent; the response data for createTask, updateTask and getTask; and   *)
(* {message: "Successfully deleted task <taskId>"} for deleteTask.         *)
(***************************************************************************)
C7_SuccessEnvelope ==
  \A p \in Procs :
    call[p].pc = "done" /\ call[p].res.kind = "ok" =>
      LET data == call[p].res.value
          parsed == JSONParse(TextOf(call[p].outcome.value))
      IN  /\ call[p].outcome.kind = "returned"
          /\ IsTextEnvelope(call[p].outcome.value)
          /\ call[p].op \in {"listTaskLists", "listTasks"} =>
               /\ parsed.k = "array"
               /\ parsed = IF Get(data, "items").k = "array"
                           THEN Get(data, "items") ELSE JArr(<<>>)
          /\ call[p].op \in {"createTask", "updateTask", "getTask"} => parsed = data
          /\ call[p].op = "deleteTask" =>
               parsed = JObj(<<Mem("message",
                          JStr("Successfully deleted task "
                               \o Get(call[p].input, "taskId").s))>>)

\* listTasks has returned [] for a response without items
C7_Witness ==
  /\ call[Caller].pc = "done"
  /\ call[Caller].op = "listTasks"
  /\ call[Caller].res.kind = "ok"
  /\ Get(call[Caller].res.value, "items") = JUndef
  /\ TextOf(call[Caller].outcome.value) = JStr("[]")

(***************************************************************************)
(* C8.  As claimed: once the memo is set, no list-tasklists call is issued *)
(* for default resolution, under any interleaving.  An invocation that     *)
(* read the memo while it was unset and is still waiting for its client    *)
(* issues the call after another invocation has set the memo.              *)
(***************************************************************************)
C8_NoFetchOnceSet ==
  [][ \A p \in Procs :
        Truthy(defaultTasklistId) =>
          ~(call[p].pc = "res_auth" /\ call'[p].pc = "res_list") ]_vars

(***************************************************************************)
(* C8, amended.  A resolution that reads the memo set returns it with no   *)
(* network call, list-tasklists is issued for default resolution only by   *)
(* an invocation that read the memo unset, and the memo, once set, is      *)
(* never unset again.                                                      *)
(***************************************************************************)
C8_SetMemoIsReturned ==
  /\ [](\A p \in Procs :
          /\ Truthy(call[p].memoSeen) =>
               /\ ~call[p].fetched
               /\ call[p].pc \notin {"res_auth", "res_list"}
               /\ call[p].finalTasklistId = call[p].memoSeen
          /\ call[p].fetched \/ call[p].pc \in {"res_auth", "res_list"} =>
               call[p].memoSeen = JNull)
  /\ [][Truthy(defaultTasklistId) => Truthy(defaultTasklistId')]_vars

\* one call is out on the memo while the other caller's list-tasklists,
\* issued for a memo it read unset, is still in flight
C8_Witness ==
  \E p, q \in Procs :
    /\ call[p].pc = "call"
    /\ Truthy(call[p].memoSeen)
    /\ TasklistSent(call[p]) = defaultTasklistId
    /\ call[q].pc = "res_list"

(***************************************************************************)
(* C9.  When getDefaultTasklistId finds the list-tasklists answer empty,   *)
(* without items, or with a first item that has no id, the effective       *)
(* tasklist is "@default" and the memo is left as it was; the caller's     *)
(* next invocation without a tasklistId then reads the memo unset and      *)
(* issues list-tasklists again once it has its client.                     *)
(***************************************************************************)
C9_SentinelNotMemoized ==
  /\ [][ \A p \in Procs :
           /\ call[p].pc = "res_list"
           /\ call'[p].pc = "try_auth"
           /\ ~Truthy(FirstId(tasklists))
           => /\ call'[p].finalTasklistId = JStr("@default")
              /\ defaultTasklistId' = defaultTasklistId ]_vars
  /\ []( /\ prior.defaulted
         /\ prior.fetched
         /\ prior.finalTasklistId = JStr("@default")
         /\ Defaulting(call[Caller])
         /\ TasklistIdOf(call[Caller]) = JUndef
         => /\ call[Caller].memoSeen = JNull
            /\ call[Caller].pc \in {"res_list", "try_auth", "call"}
                 => call[Caller].fetched )

\* twice in a row the answer had no usable first item: both invocations
\* fetched, the second is out with "@default", nothing is memoized
C9_Witness ==
  /\ prior.defaulted
  /\ prior.fetched
  /\ prior.finalTasklistId = JStr("@default")
  /\ Defaulting(call[Caller])
  /\ TasklistIdOf(call[Caller]) = JUndef
  /\ call[Caller].fetched
  /\ call[Caller].pc = "call"
  /\ TasklistSent(call[Caller]) = JStr("@default")
  /\ defaultTasklistId = JNull

(***************************************************************************)
(* C10.  While the remote's lists do not change, invocations without a     *)
(* tasklistId that are in flight together may each issue list-tasklists,   *)
(* but the memo only ever holds one value and all of them use the same     *)
(* effective tasklist.                                                     *)
(***************************************************************************)
Resolved(c) ==
  Defaulting(c) /\ TasklistIdOf(c) = JUndef /\ c.finalTasklistId # JUndef

C10_BenignRace ==
  /\ \A p, q \in Procs :
       Resolved(call[p]) /\ Resolved(call[q]) =>
         call[p].finalTasklistId = call[q].finalTasklistId
  /\ \A p \in Procs :
       Resolved(call[p]) /\ Truthy(defaultTasklistId) =>
         call[p].finalTasklistId = defaultTasklistId
  /\ \A p \in Procs :
       Truthy(call[p].memoSeen) /\ Truthy(defaultTasklistId) =>
         call[p].memoSeen = defaultTasklistId

\* both callers issued list-tasklists, both wrote the memo, both calls are
\* out with it
C10_Witness ==
  /\ \A p \in Procs :
       /\ call[p].fetched
       /\ call[p].pc = "call"
       /\ TasklistSent(call[p]) = defaultTasklistId
  /\ Truthy(defaultTasklistId)

(***************************************************************************)
(* C11.  As claimed: an invocation issues its own remote call at most      *)
(* once, and one whose client acquisition or default resolution fails      *)
(* issues no call to its endpoint and leaves the memo as it found it.  An  *)
(* invocation whose resolution has memoized an id and whose client         *)
(* acquisition inside try then fails has changed the memo, so this fails.  *)
(***************************************************************************)
EndpointOf(op) ==
  CASE op = "listTaskLists" -> "tasklists.list"
    [] op = "listTasks" -> "tasks.list"
    [] op = "createTask" -> "tasks.insert"
    [] op = "updateTask" -> "tasks.patch"
    [] op = "deleteTask" -> "tasks.delete"
    [] op = "getTask" -> "tasks.get"
    [] OTHER -> "none"

\* the invocation has completed without its remote call having settled:
\* default resolution rejected, or the client was not had inside try
FailedBeforeCall(c) == c.pc = "done" /\ c.res.kind = "pending"

OneCallNoRetry(c) ==
  /\ c.sent <= 1
  /\ c.sent = 1 <=> Issued(c)
  /\ Issued(c) => c.request.endpoint = EndpointOf(c.op)
  /\ c.res.kind # "pending" => c.pc = "done" /\ c.sent = 1
  /\ FailedBeforeCall(c) => c.sent = 0

C11_FailureLeavesMemo ==
  /\ OneCallNoRetry(call[Caller])
  /\ FailedBeforeCall(call[Caller]) => defaultTasklistId = prior.memo

(***************************************************************************)
(* C11, amended.  An invocation issues its own remote call at most once,   *)
(* with no retry after a failure, and none at all when client acquisition  *)
(* or default resolution fails.  The failing step writes nothing to the    *)
(* memo; over the whole invocation the memo is as it was found when        *)
(* default resolution failed or did not fetch, and is the id resolution    *)
(* memoized when the client acquisition inside try fails after it.         *)
(***************************************************************************)
C11_OneCallNoRetry ==
  /\ [](/\ OneCallNoRetry(call[Caller])
        /\ FailedBeforeCall(call[Caller]) =>
             IF call[Caller].outcome.kind = "returned"
                /\ call[Caller].fetched
                /\ call[Caller].finalTasklistId # JStr("@default")
             THEN defaultTasklistId = call[Caller].finalTasklistId
             ELSE defaultTasklistId = prior.memo)
  /\ [][ \A p \in Procs :
           call[p].pc # "done" /\ FailedBeforeCall(call'[p]) =>
             defaultTasklistId' = defaultTasklistId ]_vars
  /\ [][ \A p \in Procs :
           call[p].res.kind = "rejected" /\ call'[p].sent > 0 =>
             call'[p] = call[p] ]_vars

\* default resolution memoized list1, then getAuthenticatedClient rejected
\* inside try: the error envelope is returned and no call went out
C11_Witness ==
  /\ FailedBeforeCall(call[Caller])
  /\ call[Caller].op = "deleteTask"
  /\ call[Caller].fetched
  /\ call[Caller].outcome.kind = "returned"
  /\ call[Caller].sent = 0
  /\ prior.memo = JNull
  /\ defaultTasklistId = JStr("list1")

====
